---- MODULE Spec2Model ----
(***************************************************************************)
(* Quest-Atlas file selection widgets.                                     *)
(*                                                                         *)
(* MobileFileInput (src/src/components/ui/mobile-file-input.tsx, 14-174):  *)
(* a React component holding the state isUploading, a hidden file input,   *)
(* and the handlers triggerFileInput, handleFileChange, handleTouchStart   *)
(* and handleTouchEnd.  The native-first variant of the same component     *)
(* (src/unnamed/part_000) and SubmitQuest.validateFile (same file,         *)
(* 261-275) are modelled as far as file validation is concerned.           *)
(*                                                                         *)
(* React semantics the model relies on: a handler created by useCallback   *)
(* reads the isUploading of the render that created it.  Handlers that     *)
(* React attaches to the DOM are those of the latest render, so a user     *)
(* event reads the current isUploading; the arrow function handed to       *)
(* setTimeout by handleTouchEnd keeps the triggerFileInput of the render   *)
(* in which the touch ended, so the delayed call reads the isUploading of  *)
(* that moment.  fileInputRef.current is the rendered input for as long as *)
(* the component is mounted, which is the whole of every behaviour here.   *)
(***************************************************************************)
EXTENDS Integers, Sequences, FiniteSets, TLC

\* ------------------------------------------------------------------ bounds
\* Largest number of timers (recovery timers and delayed touchend calls)
\* that are armed at the same time.
MaxTimers == 2

\* ------------------------------------------------------- program constants
MB == 1024 * 1024

\* maxSize = 10 * 1024 * 1024 (default of the prop)
DefaultMaxSize == 10 * 1024 * 1024

\* setTimeout(() => setIsUploading(false), 1000)
RecoveryDelay == 1000

\* setTimeout(() => triggerFileInput(), 50)
TouchEndDelay == 50

\* const maxSize = 10 * 1024 * 1024 in SubmitQuest.validateFile
validateMaxSize == 10 * 1024 * 1024

\* const allowedTypes = [...] in SubmitQuest.validateFile
allowedTypes ==
  {"image/jpeg", "image/jpg", "image/png", "image/gif", "image/webp",
   "video/mp4", "video/quicktime", "video/webm"}

\* accept = "image/*,video/*" (default of the prop): the major types the
\* input's accept attribute names.  The attribute is a hint to the native
\* picker; the platform may still hand over a file of any type.
accept == {"image", "video"}

\* ------------------------------------------------------------ input sets
\* The values maxSize takes: the default and a caller-supplied smaller limit.
MaxSizeChoices == {DefaultMaxSize, MB}

Sizes == {MB, 2 * MB, 10 * MB, 10 * MB + 1, 12 * MB}

MimeTypes == {"image/png", "image/svg+xml", "application/pdf"}

\* File objects as far as the code reads them: file.size and file.type.
Files == [size : Sizes, type : MimeTypes]

\* event.target.files?.[0] when the list is empty
NoFile == [size |-> -1, type |-> "none"]

\* The part of a MIME type before the slash.
MajorType(t) ==
  CASE t \in {"image/jpeg", "image/jpg", "image/png", "image/gif",
              "image/webp", "image/svg+xml"} -> "image"
    [] t \in {"video/mp4", "video/quicktime", "video/webm"} -> "video"
    [] t = "application/pdf" -> "application"
    [] OTHER -> "unknown"

\* A file type the accept attribute of MobileFileInput covers.
AcceptedType(t) == MajorType(t) \in accept

VARIABLES
  disabled,     \* prop disabled
  isMobile,     \* useIsMobile()
  maxSize,      \* prop maxSize
  isUploading,  \* useState(false): TRUE is Pending, FALSE is Idle
  timers,       \* armed setTimeout callbacks, in the order they were armed
  touching,     \* a touch on the upload area has started and not ended
  pickerOpen,   \* platform: the native picker is showing
  lastCall,     \* history: the most recent call of triggerFileInput
  lastChange,   \* history: the most recent change event of the input
  results,      \* history: onFileSelect calls since the last Idle -> Pending
  vFile,        \* validation harness: the file under validation
  vUploading,   \* validation harness: isUploading before the change event
  vOut,         \* validation harness: outcomes recorded so far
  user,         \* SubmitQuest: useAuth() gave a user
  quest,        \* SubmitQuest: the quest was fetched
  description,  \* SubmitQuest: description.trim() is not empty
  selectedFile, \* SubmitQuest: useState<File | null>(null)
  previewUrl,   \* SubmitQuest: useState<string | null>(null)
  fileError,    \* SubmitQuest: useState<string | null>(null)
  submitting,   \* SubmitQuest: useState(false)
  submit,       \* SubmitQuest: the run of handleSubmit, at its await
  lastValidate, \* history: the most recent file event and its validateFile
  lastClick     \* history: the most recent call of handleFileClick

mainVars == <<disabled, isMobile, maxSize, isUploading, timers, touching,
              pickerOpen, lastCall, lastChange, results>>
valVars == <<vFile, vUploading, vOut>>
sqVars == <<user, quest, description, selectedFile, previewUrl, fileError,
            submitting, submit, lastValidate, lastClick>>
vars == <<disabled, isMobile, maxSize, isUploading, timers, touching,
          pickerOpen, lastCall, lastChange, results, vFile, vUploading, vOut,
          user, quest, description, selectedFile, previewUrl, fileError,
          submitting, submit, lastValidate, lastClick>>

NoCall == [saw |-> FALSE, was |-> FALSE, open |-> FALSE, ran |-> FALSE,
           threw |-> <<FALSE, FALSE, FALSE>>, tried |-> <<>>,
           escaped |-> FALSE, made |-> FALSE]
NoChange == [file |-> NoFile, alerted |-> FALSE, called |-> FALSE,
             after |-> FALSE, seen |-> FALSE]
NoCycle == -1
Unset == "unset"
NoBody == [alerted |-> FALSE, called |-> FALSE, isUploading |-> FALSE]
NoOut == [validate |-> Unset, change |-> NoBody, nfChange |-> NoBody,
          done |-> {}]

\* ---------------------------------------------------------------- timers
RecoveryTimer == [kind |-> "recovery", delay |-> RecoveryDelay,
                  saw |-> FALSE, own |-> TRUE]
TouchEndTimer(saw) == [kind |-> "touchEnd", delay |-> TouchEndDelay,
                       saw |-> saw, own |-> FALSE]

\* Timer i may fire now: every timer armed before it with a delay that is
\* not longer has an earlier deadline and has fired already.
Fireable(i) ==
  /\ i \in 1..Len(timers)
  /\ \A j \in 1..(i - 1) : timers[j].delay > timers[i].delay

RemoveAt(s, i) == SubSeq(s, 1, i - 1) \o SubSeq(s, i + 1, Len(s))

\* A new Idle -> Pending cycle makes the recovery timers armed so far the
\* timers of earlier cycles.
Disown(s) == [i \in 1..Len(s) |-> [s[i] EXCEPT !.own = FALSE]]

\* ------------------------------------------------- MobileFileInput, main
\* The nested try/catch of triggerFileInput.  threw[k] says whether approach
\* k throws when it is attempted: 1 is fileInputRef.current.click(), 2 is
\* new MouseEvent(...) with dispatchEvent, 3 is focus() followed by click().
\* tried lists the approaches attempted, in order; activated says that one of
\* them completed without throwing; escaped says that an exception left the
\* outermost try statement.
\* The chain without the innermost catch: a throw of approach 3 leaves
\* triggerFileInput.
tryApproachesNoLastCatch(threw) ==
  IF ~threw[1]
    THEN [tried |-> <<1>>, activated |-> TRUE, escaped |-> FALSE]
    ELSE IF ~threw[2]
      THEN [tried |-> <<1, 2>>, activated |-> TRUE, escaped |-> FALSE]
      ELSE IF ~threw[3]
        THEN [tried |-> <<1, 2, 3>>, activated |-> TRUE, escaped |-> FALSE]
        ELSE [tried |-> <<1, 2, 3>>, activated |-> FALSE, escaped |-> TRUE]

\* The chain with approach 3 in a try statement of its own after the first
\* two: it is attempted when approach 1 threw, whatever approach 2 did.
tryApproachesFlat(threw) ==
  IF ~threw[1]
    THEN [tried |-> <<1>>, activated |-> TRUE, escaped |-> FALSE]
    ELSE [tried |-> <<1, 2, 3>>, activated |-> ~threw[2] \/ ~threw[3],
          escaped |-> FALSE]

tryApproaches(threw) ==
  IF ~threw[1]
    THEN [tried |-> <<1>>, activated |-> TRUE, escaped |-> FALSE]
    ELSE IF ~threw[2]
      THEN [tried |-> <<1, 2>>, activated |-> TRUE, escaped |-> FALSE]
      ELSE IF ~threw[3]
        THEN [tried |-> <<1, 2, 3>>, activated |-> TRUE, escaped |-> FALSE]
        ELSE [tried |-> <<1, 2, 3>>, activated |-> FALSE, escaped |-> FALSE]

\* The timer armed inside the try statement, after an approach succeeded.
armsRecoveryOnSuccess(run) == run.activated

\* Whether triggerFileInput arms the recovery timer after the approaches:
\* the setTimeout follows the try statement and runs unless an exception
\* left it.
armsRecovery(run) == ~run.escaped

\* triggerFileInput, called from a closure whose isUploading is saw, with the
\* timer queue tq its caller leaves behind.  The platform decides which of
\* the approaches throw and whether the picker shows.
triggerFileInput(saw, tq) ==
  IF disabled \/ saw
    THEN /\ lastCall' = [saw |-> saw, was |-> isUploading, open |-> pickerOpen,
                         ran |-> FALSE, threw |-> <<FALSE, FALSE, FALSE>>,
                         tried |-> <<>>, escaped |-> FALSE, made |-> TRUE]
         /\ timers' = tq
         /\ UNCHANGED <<isUploading, pickerOpen, results>>
    ELSE \E threw \in [1..3 -> BOOLEAN] :
         LET run == tryApproaches(threw) IN
         /\ Len(tq) < MaxTimers
         /\ isUploading' = TRUE
         /\ lastCall' = [saw |-> saw, was |-> isUploading, open |-> pickerOpen,
                         ran |-> TRUE, threw |-> threw, tried |-> run.tried,
                         escaped |-> run.escaped, made |-> TRUE]
         /\ timers' = IF armsRecovery(run)
                        THEN Append(IF isUploading THEN tq ELSE Disown(tq),
                                    RecoveryTimer)
                        ELSE tq
         /\ results' = IF isUploading THEN results ELSE 0
         \* the platform shows the picker or swallows the request
         /\ \/ pickerOpen' = (pickerOpen \/ run.activated)
            \/ pickerOpen' = pickerOpen

\* The body of handleFileChange: what it does with event.target.files?.[0]
\* when the limit is limit and isUploading is up.
handleFileChangeBody(file, limit, up) ==
  IF file # NoFile
    THEN IF file.size > limit
      THEN [alerted |-> TRUE, called |-> FALSE, isUploading |-> up]
      ELSE [alerted |-> FALSE, called |-> TRUE, isUploading |-> FALSE]
    ELSE [alerted |-> FALSE, called |-> FALSE, isUploading |-> FALSE]

handleFileChange(file) ==
  LET out == handleFileChangeBody(file, maxSize, isUploading) IN
  /\ isUploading' = out.isUploading
  /\ lastChange' = [file |-> file, alerted |-> out.alerted,
                    called |-> out.called, after |-> out.isUploading,
                    seen |-> TRUE]
  /\ results' = IF out.called /\ results # NoCycle THEN results + 1 ELSE results

\* onClick of the upload area
ClickArea ==
  /\ ~disabled
  /\ triggerFileInput(isUploading, timers)
  /\ UNCHANGED <<disabled, isMobile, maxSize, touching, lastChange>>
  /\ UNCHANGED valVars
  /\ UNCHANGED sqVars

\* onClick of the fallback button, rendered on mobile and disabled while
\* isUploading
ClickButton ==
  /\ isMobile /\ ~disabled /\ ~isUploading
  /\ triggerFileInput(isUploading, timers)
  /\ UNCHANGED <<disabled, isMobile, maxSize, touching, lastChange>>
  /\ UNCHANGED valVars
  /\ UNCHANGED sqVars

handleTouchStart ==
  /\ ~disabled /\ ~touching
  /\ touching' = TRUE
  /\ triggerFileInput(isUploading, timers)
  /\ UNCHANGED <<disabled, isMobile, maxSize, lastChange>>
  /\ UNCHANGED valVars
  /\ UNCHANGED sqVars

handleTouchEnd ==
  /\ ~disabled /\ touching
  /\ Len(timers) < MaxTimers
  /\ touching' = FALSE
  /\ timers' = Append(timers, TouchEndTimer(isUploading))
  /\ UNCHANGED <<disabled, isMobile, maxSize, isUploading, pickerOpen,
                 lastCall, lastChange, results>>
  /\ UNCHANGED valVars
  /\ UNCHANGED sqVars

\* The callback of setTimeout(() => triggerFileInput(), 50)
TouchEndTimerFires ==
  /\ \E i \in 1..Len(timers) :
       /\ Fireable(i)
       /\ timers[i].kind = "touchEnd"
       /\ triggerFileInput(timers[i].saw, RemoveAt(timers, i))
  /\ UNCHANGED <<disabled, isMobile, maxSize, touching, lastChange>>
  /\ UNCHANGED valVars
  /\ UNCHANGED sqVars

\* The callback of setTimeout(() => setIsUploading(false), 1000)
RecoveryTimerFires ==
  /\ \E i \in 1..Len(timers) :
       /\ Fireable(i)
       /\ timers[i].kind = "recovery"
       /\ timers' = RemoveAt(timers, i)
  /\ isUploading' = FALSE
  /\ UNCHANGED <<disabled, isMobile, maxSize, touching, pickerOpen, lastCall,
                 lastChange, results>>
  /\ UNCHANGED valVars
  /\ UNCHANGED sqVars

\* Platform: the user picks a file in the native picker; change event.
PickFile ==
  /\ pickerOpen
  /\ pickerOpen' = FALSE
  /\ \E file \in Files : handleFileChange(file)
  /\ UNCHANGED <<disabled, isMobile, maxSize, timers, touching, lastCall>>
  /\ UNCHANGED valVars
  /\ UNCHANGED sqVars

\* Platform: the user dismisses the picker and the input fires a change
\* event with an empty file list.
DismissWithChange ==
  /\ pickerOpen
  /\ pickerOpen' = FALSE
  /\ handleFileChange(NoFile)
  /\ UNCHANGED <<disabled, isMobile, maxSize, timers, touching, lastCall>>
  /\ UNCHANGED valVars
  /\ UNCHANGED sqVars

\* Platform: the user dismisses the picker and no change event follows.
DismissSilently ==
  /\ pickerOpen
  /\ pickerOpen' = FALSE
  /\ UNCHANGED <<disabled, isMobile, maxSize, isUploading, timers, touching,
                 lastCall, lastChange, results>>
  /\ UNCHANGED valVars
  /\ UNCHANGED sqVars

\* ------------------------------------- MobileFileInput, native-first variant
\* The body of handleFileChange of the native-first variant.
nfHandleFileChangeBody(file, limit, up) ==
  IF file # NoFile
    THEN IF file.size > limit
      THEN [alerted |-> TRUE, called |-> FALSE, isUploading |-> up]
      ELSE [alerted |-> FALSE, called |-> TRUE, isUploading |-> FALSE]
    ELSE [alerted |-> FALSE, called |-> FALSE, isUploading |-> FALSE]

\* ------------------------------------------------------------- SubmitQuest
SizeError == "File size must be less than 10MB"
TypeError == "Please select an image (JPEG, PNG, GIF, WebP) or video (MP4, MOV, WebM) file"
Null == "null"

\* validateFile with the type check ahead of the size check.
validateFileTypeFirst(file) ==
  IF file.type \notin allowedTypes
    THEN TypeError
    ELSE IF file.size > validateMaxSize
      THEN SizeError
      ELSE Null

\* validateFile that also turns away a file of exactly the limit.
validateFileAtLeast(file) ==
  IF file.size >= validateMaxSize
    THEN SizeError
    ELSE IF file.type \notin allowedTypes
      THEN TypeError
      ELSE Null

validateFile(file) ==
  IF file.size > validateMaxSize
    THEN SizeError
    ELSE IF file.type \notin allowedTypes
      THEN TypeError
      ELSE Null

\* ------------------------------------------------------ validation harness
\* One file, one limit and one isUploading are drawn, and the three pieces of
\* validation code are applied to them in any order.
ApplyValidateFile ==
  /\ vFile # NoFile
  /\ "validate" \notin vOut.done
  /\ vOut' = [vOut EXCEPT !.validate = validateFile(vFile),
                          !.done = @ \cup {"validate"}]
  /\ UNCHANGED <<vFile, vUploading>>
  /\ UNCHANGED mainVars
  /\ UNCHANGED sqVars

ApplyHandleFileChange ==
  /\ "change" \notin vOut.done
  /\ vOut' = [vOut EXCEPT
               !.change = handleFileChangeBody(vFile, maxSize, vUploading),
               !.done = @ \cup {"change"}]
  /\ UNCHANGED <<vFile, vUploading>>
  /\ UNCHANGED mainVars
  /\ UNCHANGED sqVars

ApplyNfHandleFileChange ==
  /\ "nfChange" \notin vOut.done
  /\ vOut' = [vOut EXCEPT
               !.nfChange = nfHandleFileChangeBody(vFile, maxSize, vUploading),
               !.done = @ \cup {"nfChange"}]
  /\ UNCHANGED <<vFile, vUploading>>
  /\ UNCHANGED mainVars
  /\ UNCHANGED sqVars

\* ------------------------------------------------ SubmitQuest, the form
\* URL.createObjectURL(file): a URL that stands for the file it was made of.
createObjectURL(file) == [blob |-> file, set |-> TRUE]

\* previewUrl = null
NoUrl == [blob |-> NoFile, set |-> FALSE]

NoValidate == [file |-> NoFile, result |-> Null, made |-> FALSE,
               handler |-> "none"]
NoClick == [threw |-> <<FALSE, FALSE>>, tried |-> <<>>, escaped |-> FALSE,
            made |-> FALSE]
NoSubmit == [pc |-> "idle", file |-> NoFile, uploaded |-> FALSE,
             inserted |-> FALSE, outcome |-> "none"]

\* handleFileSelect whose error branch leaves the preview in place.
handleFileSelectKeepPreview(file, st) ==
  IF file # NoFile
    THEN IF validateFile(file) # Null
      THEN [selectedFile |-> NoFile, previewUrl |-> st.previewUrl,
            fileError |-> validateFile(file)]
      ELSE [selectedFile |-> file, previewUrl |-> createObjectURL(file),
            fileError |-> Null]
    ELSE st

\* The body of handleFileSelect: the state it leaves, given the state st it
\* finds and event.target.files?.[0].
handleFileSelectBody(file, st) ==
  IF file # NoFile
    THEN IF validateFile(file) # Null
      THEN [selectedFile |-> NoFile, previewUrl |-> NoUrl,
            fileError |-> validateFile(file)]
      ELSE [selectedFile |-> file, previewUrl |-> createObjectURL(file),
            fileError |-> Null]
    ELSE st

\* handleFileDrop that takes the dropped file without validating it.
handleFileDropNoValidate(file, st) ==
  IF file # NoFile
    THEN [selectedFile |-> file, previewUrl |-> createObjectURL(file),
          fileError |-> Null]
    ELSE st

\* The body of handleFileDrop, given event.dataTransfer.files[0].
handleFileDropBody(file, st) ==
  IF file # NoFile
    THEN IF validateFile(file) # Null
      THEN [st EXCEPT !.fileError = validateFile(file)]
      ELSE [selectedFile |-> file, previewUrl |-> createObjectURL(file),
            fileError |-> Null]
    ELSE st

removeFileBody(st) ==
  [selectedFile |-> NoFile, previewUrl |-> NoUrl, fileError |-> Null]

fileState ==
  [selectedFile |-> selectedFile, previewUrl |-> previewUrl,
   fileError |-> fileError]

setFileState(st) ==
  /\ selectedFile' = st.selectedFile
  /\ previewUrl' = st.previewUrl
  /\ fileError' = st.fileError

\* made says that the handler called validateFile: it does for a file only.
recordValidate(file, handler) ==
  lastValidate' = IF file # NoFile
                    THEN [file |-> file, result |-> validateFile(file),
                          made |-> TRUE, handler |-> handler]
                    ELSE [file |-> NoFile, result |-> Null, made |-> FALSE,
                          handler |-> handler]

\* The page is shown until handleSubmit navigates away.
Shown == submit.pc # "left"

\* onChange of the hidden input with files[0] = file
handleFileSelect(file) ==
  /\ Shown
  /\ setFileState(handleFileSelectBody(file, fileState))
  /\ recordValidate(file, "handleFileSelect")
  /\ UNCHANGED <<user, quest, description, submitting, submit, lastClick>>
  /\ UNCHANGED mainVars
  /\ UNCHANGED valVars

\* onDrop of the upload area with dataTransfer.files[0] = file
handleFileDrop(file) ==
  /\ Shown
  /\ setFileState(handleFileDropBody(file, fileState))
  /\ recordValidate(file, "handleFileDrop")
  /\ UNCHANGED <<user, quest, description, submitting, submit, lastClick>>
  /\ UNCHANGED mainVars
  /\ UNCHANGED valVars

\* The remove button, rendered while a file is selected
removeFile ==
  /\ Shown
  /\ selectedFile # NoFile
  /\ setFileState(removeFileBody(fileState))
  /\ UNCHANGED <<user, quest, description, submitting, submit, lastValidate,
                 lastClick>>
  /\ UNCHANGED mainVars
  /\ UNCHANGED valVars

FileSelected == \E file \in Files \cup {NoFile} : handleFileSelect(file)
FileDropped == \E file \in Files \cup {NoFile} : handleFileDrop(file)

\* handleFileClick with the fallback in a try statement of its own.
handleFileClickGuarded(threw) ==
  IF ~threw[1]
    THEN [threw |-> threw, tried |-> <<1>>, escaped |-> FALSE, made |-> TRUE]
    ELSE [threw |-> threw, tried |-> <<1, 2>>, escaped |-> FALSE,
          made |-> TRUE]

\* The body of handleFileClick.  threw[1]: fileInputRef.current.click()
\* throws; threw[2]: the MouseEvent dispatched from the catch block throws.
\* Nothing encloses the catch block, so what it throws leaves the handler.
handleFileClickBody(threw) ==
  IF ~threw[1]
    THEN [threw |-> threw, tried |-> <<1>>, escaped |-> FALSE, made |-> TRUE]
    ELSE [threw |-> threw, tried |-> <<1, 2>>, escaped |-> threw[2],
          made |-> TRUE]

\* onClick and onTouchStart of the upload area, onClick of the mobile button
handleFileClick ==
  /\ Shown
  /\ \E threw \in [1..2 -> BOOLEAN] : lastClick' = handleFileClickBody(threw)
  /\ UNCHANGED <<user, quest, description, selectedFile, previewUrl,
                 fileError, submitting, submit, lastValidate>>
  /\ UNCHANGED mainVars
  /\ UNCHANGED valVars

\* onChange of the description field
setDescription ==
  /\ Shown
  /\ description' = ~description
  /\ UNCHANGED <<user, quest, selectedFile, previewUrl, fileError, submitting,
                 submit, lastValidate, lastClick>>
  /\ UNCHANGED mainVars
  /\ UNCHANGED valVars

\* if (!user || !quest || !description.trim())
missingInformation(u, q, d) == ~u \/ ~q \/ ~d

\* handleSubmit that goes on to the insert whatever the upload returned.
afterUploadIgnoreError(run, ok) ==
  [run EXCEPT !.pc = "inserting", !.uploaded = ok]

\* handleSubmit after the await of the upload: uploadError is thrown to the
\* catch block, otherwise the insert follows.
afterUpload(run, ok) ==
  IF ok
    THEN [run EXCEPT !.pc = "inserting", !.uploaded = TRUE]
    ELSE [run EXCEPT !.pc = "idle", !.outcome = "uploadFailed"]

\* handleSubmit after the await of the insert: submitError is thrown to the
\* catch block, otherwise the page navigates to the quest.
afterInsert(run, ok) ==
  IF ok
    THEN [run EXCEPT !.pc = "left", !.inserted = TRUE,
                     !.outcome = "submitted"]
    ELSE [run EXCEPT !.pc = "idle", !.outcome = "insertFailed"]

\* handleSubmit up to its first await.  One run at a time: the submit button
\* is disabled while submitting.
handleSubmit ==
  /\ submit.pc = "idle"
  /\ ~submitting
  /\ IF missingInformation(user, quest, description)
       THEN /\ submit' = [NoSubmit EXCEPT !.outcome = "missing"]
            /\ UNCHANGED submitting
       ELSE /\ submitting' = TRUE
            /\ submit' = [pc |-> IF selectedFile # NoFile
                                   THEN "uploading" ELSE "inserting",
                          file |-> selectedFile, uploaded |-> FALSE,
                          inserted |-> FALSE, outcome |-> "running"]
  /\ UNCHANGED <<user, quest, description, selectedFile, previewUrl,
                 fileError, lastValidate, lastClick>>
  /\ UNCHANGED mainVars
  /\ UNCHANGED valVars

\* The storage upload settles; finally runs when the handler ends here.
uploadSettles ==
  /\ submit.pc = "uploading"
  /\ \E ok \in BOOLEAN :
       /\ submit' = afterUpload(submit, ok)
       /\ submitting' = IF afterUpload(submit, ok).pc = "inserting"
                          THEN submitting ELSE FALSE
  /\ UNCHANGED <<user, quest, description, selectedFile, previewUrl,
                 fileError, lastValidate, lastClick>>
  /\ UNCHANGED mainVars
  /\ UNCHANGED valVars

\* The insert into Submissions settles; finally runs.
insertSettles ==
  /\ submit.pc = "inserting"
  /\ \E ok \in BOOLEAN : submit' = afterInsert(submit, ok)
  /\ submitting' = FALSE
  /\ UNCHANGED <<user, quest, description, selectedFile, previewUrl,
                 fileError, lastValidate, lastClick>>
  /\ UNCHANGED mainVars
  /\ UNCHANGED valVars

SqIdle ==
  /\ user = FALSE
  /\ quest = FALSE
  /\ description = FALSE
  /\ selectedFile = NoFile
  /\ previewUrl = NoUrl
  /\ fileError = Null
  /\ submitting = FALSE
  /\ submit = NoSubmit
  /\ lastValidate = NoValidate
  /\ lastClick = NoClick

ValIdle ==
  /\ vFile = NoFile
  /\ vUploading = FALSE
  /\ vOut = NoOut

Init ==
  /\ disabled \in BOOLEAN
  /\ isMobile \in BOOLEAN
  /\ maxSize \in MaxSizeChoices
  /\ isUploading = FALSE
  /\ timers = <<>>
  /\ touching = FALSE
  /\ pickerOpen = FALSE
  /\ lastCall = NoCall
  /\ lastChange = NoChange
  /\ results = NoCycle
  /\ ValIdle
  /\ SqIdle

Next ==
  \/ ClickArea
  \/ ClickButton
  \/ handleTouchStart
  \/ handleTouchEnd
  \/ TouchEndTimerFires
  \/ RecoveryTimerFires
  \/ PickFile
  \/ DismissWithChange
  \/ DismissSilently

Spec == Init /\ [][Next]_vars

\* The event loop runs the callback of every armed timer: an armed timer
\* that may fire does fire.
LiveSpec ==
  /\ Spec
  /\ WF_vars(RecoveryTimerFires)
  /\ WF_vars(TouchEndTimerFires)

InitValidation ==
  /\ disabled = FALSE
  /\ isMobile = FALSE
  /\ maxSize \in MaxSizeChoices
  /\ isUploading = FALSE
  /\ timers = <<>>
  /\ touching = FALSE
  /\ pickerOpen = FALSE
  /\ lastCall = NoCall
  /\ lastChange = NoChange
  /\ results = NoCycle
  /\ vFile \in Files \cup {NoFile}
  /\ vUploading \in BOOLEAN
  /\ vOut = NoOut
  /\ SqIdle

NextValidation ==
  \/ ApplyValidateFile
  \/ ApplyHandleFileChange
  \/ ApplyNfHandleFileChange

SpecValidation == InitValidation /\ [][NextValidation]_vars

MainIdle ==
  /\ disabled = FALSE
  /\ isMobile = FALSE
  /\ maxSize = DefaultMaxSize
  /\ isUploading = FALSE
  /\ timers = <<>>
  /\ touching = FALSE
  /\ pickerOpen = FALSE
  /\ lastCall = NoCall
  /\ lastChange = NoChange
  /\ results = NoCycle

InitSubmit ==
  /\ MainIdle
  /\ ValIdle
  /\ user \in BOOLEAN
  /\ quest \in BOOLEAN
  /\ description = FALSE
  /\ selectedFile = NoFile
  /\ previewUrl = NoUrl
  /\ fileError = Null
  /\ submitting = FALSE
  /\ submit = NoSubmit
  /\ lastValidate = NoValidate
  /\ lastClick = NoClick

NextSubmit ==
  \/ FileSelected
  \/ FileDropped
  \/ removeFile
  \/ handleFileClick
  \/ setDescription
  \/ handleSubmit
  \/ uploadSettles
  \/ insertSettles

SpecSubmit == InitSubmit /\ [][NextSubmit]_vars

\* ================================================================ claims
Range(s) == {s[i] : i \in 1..Len(s)}
AllThrew(call) == \A k \in 1..3 : call.threw[k]

\* C1: while the trigger is Pending, every further triggerFileInput call
\* makes no picker-open attempt (no activation approach is tried).
C1_NoAttemptWhilePending ==
  (lastCall.made /\ lastCall.was) => lastCall.tried = <<>>

\* C2: without a change event, a Pending trigger returns to Idle, and a
\* triggerFileInput call made from the rendered handlers while the trigger is
\* Idle attempts to open the picker again, on every path through the
\* activation approaches.
C2_PendingRecovers ==
  /\ isUploading ~> ~isUploading
  /\ [](lastCall.made /\ ~lastCall.saw /\ ~lastCall.was
          => lastCall.ran /\ lastCall.tried # <<>>)

\* The trigger is Idle again after a call that ran the approaches, no change
\* event was ever delivered and no timer is left.
C2_Witness ==
  /\ lastCall.ran
  /\ AllThrew(lastCall)
  /\ ~lastChange.seen
  /\ ~isUploading
  /\ timers = <<>>

\* C3: every cycle that has ended (the trigger is Idle, the picker is closed
\* and no timer is left) has delivered exactly one result to onFileSelect.
C3_ExactlyOneResult ==
  (results # NoCycle /\ ~isUploading /\ ~pickerOpen /\ timers = <<>>)
    => results = 1

\* C4: a cycle started by a call in which all three approaches threw has
\* delivered exactly one result when the trigger is Idle again and no timer
\* is left.
C4_AllThrowOneResult ==
  (lastCall.ran /\ ~lastCall.was /\ AllThrew(lastCall) /\ ~isUploading
     /\ timers = <<>>)
    => results = 1

\* C5: the trigger is Idle once handleFileChange has returned, whatever the
\* change event carried.
C5_IdleAfterChange ==
  lastChange.seen => ~lastChange.after

\* C6: no exception escapes triggerFileInput, whichever approaches throw.
C6_NoEscape ==
  lastCall.made => ~lastCall.escaped

\* All three approaches threw and the call returned normally.
C6_Witness ==
  /\ lastCall.ran
  /\ AllThrew(lastCall)
  /\ ~lastCall.escaped

\* C7: the approaches are attempted in the order 1, 2, 3; approach k is
\* attempted exactly when every approach before it threw.
C7_OrderedFallback ==
  /\ \A i \in 1..Len(lastCall.tried) : lastCall.tried[i] = i
  /\ lastCall.ran =>
       \A k \in 1..3 :
         (k \in Range(lastCall.tried)) <=> (\A j \in 1..(k - 1) : lastCall.threw[j])
  /\ ~lastCall.ran => lastCall.tried = <<>>

\* Approach 1 threw, approach 2 did not, and approach 3 was left alone
\* although it would have thrown.
C7_Witness ==
  /\ lastCall.ran
  /\ lastCall.threw = <<TRUE, FALSE, TRUE>>
  /\ lastCall.tried = <<1, 2>>

\* C8: no picker-open attempt is made while the picker of an earlier request
\* is still open.
C8_OneInFlight ==
  (lastCall.made /\ lastCall.open) => lastCall.tried = <<>>

\* C9: a chosen file whose MIME type is outside the accepted types is not
\* delivered to onFileSelect.
C9_UnsupportedTypeRejected ==
  (lastChange.seen /\ lastChange.file # NoFile
     /\ ~AcceptedType(lastChange.file.type))
    => ~lastChange.called

\* C10: a file larger than the size limit gets the oversized rejection
\* whatever its type: validateFile returns the size error, and neither
\* variant of handleFileChange calls onFileSelect.
C10_OversizedRejected ==
  /\ ("validate" \in vOut.done /\ vFile.size > validateMaxSize)
       => vOut.validate = SizeError
  /\ ("change" \in vOut.done /\ vFile.size > maxSize)
       => (vOut.change.alerted /\ ~vOut.change.called)
  /\ ("nfChange" \in vOut.done /\ vFile.size > maxSize)
       => (vOut.nfChange.alerted /\ ~vOut.nfChange.called)

\* An oversized file of a type outside the allowed list has been through all
\* three pieces of validation code.
C10_Witness ==
  /\ vOut.done = {"validate", "change", "nfChange"}
  /\ vFile.size > validateMaxSize
  /\ vFile.size > maxSize
  /\ vFile.type \notin allowedTypes
  /\ vOut.validate = SizeError

ValidFile(file) ==
  /\ file.size <= 10 * 1024 * 1024
  /\ file.type \in {"image/jpeg", "image/jpg", "image/png", "image/gif",
                    "image/webp", "video/mp4", "video/quicktime",
                    "video/webm"}

\* C11: validateFile returns null exactly for a file of at most 10*1024*1024
\* bytes whose type is in the allowed list (2MB png and exactly-10MB png
\* accepted, 12MB png the size error, 1MB pdf the type error), and a change
\* event without a file changes neither selectedFile, previewUrl nor
\* fileError.
C11_ValidateFileAccepts ==
  /\ [](lastValidate.made =>
         /\ (lastValidate.result = Null) <=> ValidFile(lastValidate.file)
         /\ lastValidate.file = [size |-> 2 * MB, type |-> "image/png"]
              => lastValidate.result = Null
         /\ lastValidate.file = [size |-> 10 * MB, type |-> "image/png"]
              => lastValidate.result = Null
         /\ lastValidate.file = [size |-> 12 * MB, type |-> "image/png"]
              => lastValidate.result = SizeError
         /\ lastValidate.file = [size |-> MB, type |-> "application/pdf"]
              => lastValidate.result = TypeError)
  /\ [][(/\ lastValidate' # lastValidate
          /\ lastValidate'.handler = "handleFileSelect"
          /\ lastValidate'.file = NoFile)
          => UNCHANGED <<selectedFile, previewUrl, fileError>>]_vars

\* A png of exactly 10*1024*1024 bytes is selected with its preview, and a
\* change event without a file came after it.
C11_Witness ==
  /\ selectedFile = [size |-> 10 * MB, type |-> "image/png"]
  /\ previewUrl.set
  /\ lastValidate.handler = "handleFileSelect"
  /\ lastValidate.file = NoFile

\* C12: no exception escapes SubmitQuest.handleFileClick, also when the
\* fallback dispatch throws after the direct click threw.
C12_ClickNoEscape ==
  lastClick.made => ~lastClick.escaped

\* C13: handleSubmit issues the insert of a run with a file only after the
\* upload of that file completed without error; a failed upload or missing
\* user, quest or description inserts no row; submitting is false whenever
\* no run is in flight.
C13_InsertAfterUpload ==
  /\ (submit.pc = "inserting" \/ submit.inserted)
       => (submit.file # NoFile => submit.uploaded)
  /\ submit.outcome \in {"missing", "uploadFailed"} => ~submit.inserted
  /\ submit.outcome \in {"missing", "uploadFailed"} => submit.pc = "idle"
  /\ submit.pc \in {"idle", "left"} => ~submitting

\* A run with a file ended in a failed upload: nothing inserted, submitting
\* reset.
C13_Witness ==
  /\ submit.outcome = "uploadFailed"
  /\ submit.file # NoFile
  /\ ~submit.inserted
  /\ ~submitting

\* C14: a recovery timer armed by an earlier cycle that fires while a later
\* cycle is Pending leaves that cycle Pending.
C14_TimerEndsOwnCycle ==
  [][(/\ RecoveryTimerFires
      /\ isUploading
      /\ \E i \in 1..Len(timers) :
           /\ Fireable(i)
           /\ timers[i].kind = "recovery"
           /\ ~timers[i].own
           /\ timers' = RemoveAt(timers, i))
       => isUploading']_vars

\* C15: fileError and selectedFile are never both set.
C15_ErrorXorFile ==
  ~(fileError # Null /\ selectedFile # NoFile)

\* C16: selectedFile is null or a file validateFile accepts, and the file
\* handleSubmit uploads is such a file.
C16_SelectedFileValid ==
  /\ selectedFile # NoFile => ValidFile(selectedFile)
  /\ submit.pc = "uploading" =>
       (submit.file # NoFile /\ ValidFile(submit.file))

\* A file of exactly the limit is being uploaded after an oversized file was
\* turned away.
C16_Witness ==
  /\ submit.pc = "uploading"
  /\ submit.file.size = 10 * MB
  /\ lastValidate.made
  /\ lastValidate.result = SizeError

\* C17: previewUrl is set exactly when selectedFile is set, and it was made
\* of the file that is selected.
C17_PreviewMatchesFile ==
  /\ previewUrl.set <=> selectedFile # NoFile
  /\ previewUrl.set => previewUrl.blob = selectedFile

\* A second file replaced the selection, or was turned away, after a first
\* one had its preview made.
C17_Witness ==
  /\ previewUrl.set
  /\ selectedFile # NoFile
  /\ lastValidate.made
  /\ lastValidate.file # selectedFile

====
